---- MODULE Spec2Model ----
(***************************************************************************)
(* HireCharm onboarding API (src/api/main.py): the two request handlers    *)
(* submit_onboarding and get_submission, run as concurrent requests        *)
(* against one PostgreSQL store.  Each request owns a SQLAlchemy session   *)
(* whose uncommitted writes are private until session.commit().            *)
(***************************************************************************)
EXTENDS Integers, Sequences, FiniteSets, TLC

(***************************************************************************)
(* Bounds of the model.                                                    *)
(***************************************************************************)
\* number of HTTP requests served in one behaviour
NumRequests == 3
\* longest segments array of a form payload
MaxSegs == 2
\* longest personas array of a form payload
MaxPers == 2

Requests == 1..NumRequests

(***************************************************************************)
(* Python values.  A value is tagged with its type; Absent is a key that   *)
(* a dict does not hold.                                                   *)
(***************************************************************************)
PyNone == [t |-> "none"]
Absent == [t |-> "absent"]
PyStr(s) == [t |-> "str", v |-> s]
PyInt(n) == [t |-> "int", v |-> n]

\* Python truthiness, as `not x` and `x or y` read it.
Truthy(x) ==
    CASE x.t = "none" -> FALSE
      [] x.t = "absent" -> FALSE
      [] x.t = "str" -> x.v # ""
      [] x.t = "int" -> x.v # 0

\* dict.get(key): None when the key is absent.
Get(x) == IF x = Absent THEN PyNone ELSE x

\* dict.get(key, default)
GetDefault(x, d) == IF x = Absent THEN d ELSE x

\* Python `a or b`
PyOr(a, b) == IF Truthy(a) THEN a ELSE b

\* str(uuid4()): the k-th identifier request r generates; distinct calls
\* give distinct identifiers.
Uuid(r, k) == PyStr("u" \o ToString(r) \o "-" \o ToString(k))

(***************************************************************************)
(* Request payloads.                                                       *)
(***************************************************************************)
SegmentDict(n, sn, rp, rpc) ==
    [name |-> n, segment_name |-> sn, revenue_pct |-> rp, revenue_percentage |-> rpc]

PersonaDict(jt) == [job_title |-> jt]

Payload(cid, cn, segs, pers) ==
    [client_id |-> cid, company_name |-> cn, segments |-> segs, personas |-> pers]

\* sequences over S of length at most n
SeqUpTo(S, n) == UNION {[1..k -> S] : k \in 0..n}

NameValues == {Absent, PyStr(""), PyStr("SMB")}
AliasNameValues == {Absent, PyStr("Ent")}
PctValues == {Absent, PyInt(0), PyInt(40)}
AliasPctValues == {Absent, PyInt(60)}
JobTitleValues == {Absent, PyStr(""), PyStr("CTO")}

\* segment entries: every combination of the two name fields, and every
\* combination of the two revenue fields on a named entry
SegmentEntries ==
    {SegmentDict(n, sn, Absent, Absent) : n \in NameValues, sn \in AliasNameValues}
    \cup {SegmentDict(Absent, PyStr("Ent"), rp, rpc) : rp \in PctValues, rpc \in AliasPctValues}

PersonaEntries == {PersonaDict(jt) : jt \in JobTitleValues}

BaseSegments ==
    << SegmentDict(PyStr("SMB"), Absent, PyInt(40), Absent),
       SegmentDict(PyStr(""), Absent, PyInt(40), Absent),
       SegmentDict(Absent, PyStr("Ent"), Absent, PyInt(60)) >>
BasePersonas == << PersonaDict(PyStr("CTO")) >>

\* how a payload identifies its client: both fields absent or empty in every
\* combination, a company name alone, a client_id alone or with a company name
Identifications ==
    ({PyNone, PyStr("")} \X {PyNone, PyStr("")})
    \cup ({PyNone} \X {PyStr("Acme"), PyStr("acme")})
    \cup ({PyStr("u1-1")} \X {PyNone, PyStr("Acme")})

\* payloads of the concurrent workload: every identification, fixed children
RacePayloads ==
    {Payload(i[1], i[2], BaseSegments, BasePersonas) : i \in Identifications}

\* payloads of the form workload: one named company, every children array
FormPayloads ==
    {Payload(PyNone, PyStr("Acme"), segs, <<>>) : segs \in SeqUpTo(SegmentEntries, MaxSegs)}
    \cup {Payload(PyNone, PyStr("Acme"), <<>>, pers) : pers \in SeqUpTo(PersonaEntries, MaxPers)}

VARIABLES
    clients,        \* committed rows of table clients
    submissions,    \* committed rows of table client_onboarding_submissions
    segments,       \* committed rows of table client_segments
    personas,       \* committed rows of table client_personas
    req,            \* per request: handler locals, session, response
    workload        \* which payloads the clients send: "race" or "form"

tables == <<clients, submissions, segments, personas>>
vars == <<clients, submissions, segments, personas, req, workload>>

NoPending == [clients |-> {}, submissions |-> {}, segments |-> {}, personas |-> {}]
NoResult == [submission |-> {}, segments |-> <<>>, personas |-> <<>>]

IdleRequest ==
    [ kind |-> "none", pc |-> "idle",
      submission |-> Payload(PyNone, PyNone, <<>>, <<>>),
      arg |-> PyNone,
      session |-> "none", pending |-> NoPending,
      submission_id |-> PyNone, client_id |-> PyNone,
      nuuid |-> 0, idx |-> 0,
      looked_up |-> FALSE, seen |-> {}, created |-> FALSE,
      rolled_back |-> FALSE, status |-> 0, result |-> NoResult ]

SubmitInputs == IF workload = "race" THEN RacePayloads ELSE FormPayloads

\* Requests arrive in order.  The concurrent workload sends submissions and
\* reads in any mix; the form workload sends one form (request 1) and one read
\* (request 2).
MayStart(r) ==
    /\ req[r].pc = "idle"
    /\ \A q \in Requests : q < r => req[q].pc # "idle"
    /\ workload = "form" => r <= 2
MaySubmit(r) == workload = "race" \/ r = 1
MayGet(r) == workload = "race" \/ r = 2

InitTables ==
    /\ clients = {}
    /\ submissions = {}
    /\ segments = {}
    /\ personas = {}
    /\ req = [r \in Requests |-> IdleRequest]

Init == InitTables /\ workload = "race"
InitForm == InitTables /\ workload = "form"

(***************************************************************************)
(* The store.  A statement of a session reads the committed rows (READ     *)
(* COMMITTED) and writes into the session's pending unit of work; commit   *)
(* publishes the pending rows at once, rollback and close discard them.    *)
(***************************************************************************)
\* Schema of table clients: whether name carries a UNIQUE constraint.
ClientNameUnique == FALSE

\* faulty variant: the lookup folds case (WHERE lower(name) = lower(:name))
FoldCase(x) == IF x = PyStr("Acme") THEN PyStr("acme") ELSE x
ClientsNamedAnyCase(name) == {c \in clients : FoldCase(c.name) = FoldCase(name)}

\* SELECT id FROM clients WHERE name = :name
ClientsNamed(name) == {c \in clients : c.name = name}

\* INSERT INTO clients (id, name, created_at)
ClientRow(id, name) == [id |-> id, name |-> name]

\* INSERT INTO client_onboarding_submissions (id, client_id, ..., company_name, ...)
SubmissionRow(id, client_id, sub) ==
    [id |-> id, client_id |-> client_id, company_name |-> sub.company_name]

\* faulty variant: the skip test reads 'name' alone
SegmentSkippedNameOnly(seg) == ~Truthy(Get(seg.name))

\* if not seg.get('name') and not seg.get('segment_name'): continue
SegmentSkipped(seg) == ~Truthy(Get(seg.name)) /\ ~Truthy(Get(seg.segment_name))

\* INSERT INTO client_segments (id, submission_id, segment_order, segment_name,
\* revenue_percentage, ...)
SegmentRow(id, submission_id, idx, seg) ==
    [ id |-> id, submission_id |-> submission_id, segment_order |-> idx,
      segment_name |-> PyOr(Get(seg.name), GetDefault(seg.segment_name, PyStr(""))),
      revenue_percentage |-> PyOr(Get(seg.revenue_pct), Get(seg.revenue_percentage)) ]

\* faulty variant: the skip test is `'job_title' not in persona`
PersonaSkippedIfAbsent(persona) == persona.job_title = Absent

\* if not persona.get('job_title'): continue
PersonaSkipped(persona) == ~Truthy(Get(persona.job_title))

\* INSERT INTO client_personas (id, submission_id, persona_order, job_title, ...)
PersonaRow(id, submission_id, idx, persona) ==
    [ id |-> id, submission_id |-> submission_id, persona_order |-> idx,
      job_title |-> GetDefault(persona.job_title, PyStr("")) ]

\* faulty variant: the company name is looked up whether or not client_id is given
NeedsLookupByName(client_id, sub) == Truthy(sub.company_name)

\* if not client_id and submission.company_name:
NeedsLookup(client_id, sub) == ~Truthy(client_id) /\ Truthy(sub.company_name)

\* faulty variant: the test is `if client_id is None`
MissingClientIdIsNone(client_id) == client_id = PyNone

\* if not client_id: raise HTTPException(status_code=400, ...)
MissingClientId(client_id) == ~Truthy(client_id)

(***************************************************************************)
(* POST /onboarding/submit                                                 *)
(***************************************************************************)
Become(r, rec) == req' = [req EXCEPT ![r] = rec]

\* The handler's own code between two statements: the loop tests and the
\* skipped entries of `for idx, seg in enumerate(segments)` and of
\* `for idx, persona in enumerate(personas)`, up to the next INSERT or the
\* commit.
RECURSIVE RunToStatement(_)
RunToStatement(rec) ==
    IF rec.pc = "segments"
      THEN IF rec.idx >= Len(rec.submission.segments)
             THEN RunToStatement([rec EXCEPT !.idx = 0, !.pc = "personas"])
             ELSE IF SegmentSkipped(rec.submission.segments[rec.idx + 1])
                    THEN RunToStatement([rec EXCEPT !.idx = @ + 1])
                    ELSE rec
      ELSE IF rec.pc = "personas"
             THEN IF rec.idx >= Len(rec.submission.personas)
                    THEN [rec EXCEPT !.idx = 0, !.pc = "commit"]
                    ELSE IF PersonaSkipped(rec.submission.personas[rec.idx + 1])
                           THEN RunToStatement([rec EXCEPT !.idx = @ + 1])
                           ELSE rec
             ELSE rec

\* session = get_db_session(); submission_id = str(uuid4());
\* client_id = submission.client_id; then the branch on client_id.
\* The session is built lazily: no statement reaches the store here.
SubmitBegin(r) ==
    /\ MayStart(r)
    /\ MaySubmit(r)
    /\ \E sub \in SubmitInputs :
         LET cid == sub.client_id
             opened == [req[r] EXCEPT !.kind = "submit", !.submission = sub,
                            !.session = "open", !.submission_id = Uuid(r, 0),
                            !.nuuid = 1, !.client_id = cid]
         IN  IF NeedsLookup(cid, sub)
               THEN Become(r, [opened EXCEPT !.pc = "lookup"])
               ELSE IF MissingClientId(cid)
                      THEN Become(r, [opened EXCEPT !.pc = "finally", !.status = 400])
                      ELSE Become(r, [opened EXCEPT !.pc = "insert_submission"])
    /\ UNCHANGED <<tables, workload>>

\* SELECT id FROM clients WHERE name = :name LIMIT 1; row = result.fetchone()
\* LIMIT 1 without ORDER BY returns any one of the matching rows.
ClientLookup(r) ==
    /\ req[r].kind = "submit"
    /\ req[r].pc = "lookup"
    /\ LET rows == ClientsNamed(req[r].submission.company_name)
           looked == [req[r] EXCEPT !.looked_up = TRUE, !.seen = clients]
       IN  IF rows # {}
             THEN \E row \in rows :
                    Become(r, [looked EXCEPT !.client_id = row.id,
                                             !.pc = "insert_submission"])
             ELSE Become(r, [looked EXCEPT !.pc = "insert_client"])
    /\ UNCHANGED <<tables, workload>>

\* faulty variant: the client row is committed by its own statement (autocommit)
ClientInsertAutocommit(r) ==
    /\ req[r].kind = "submit"
    /\ req[r].pc = "insert_client"
    /\ LET name == req[r].submission.company_name
           id == Uuid(r, req[r].nuuid)
       IN  /\ clients' = clients \cup {ClientRow(id, name)}
           /\ Become(r, [req[r] EXCEPT !.client_id = id,
                             !.nuuid = @ + 1,
                             !.created = TRUE,
                             !.pc = "insert_submission"])
    /\ UNCHANGED <<submissions, segments, personas, workload>>

\* client_id = str(uuid4()); INSERT INTO clients ...
ClientInsert(r) ==
    /\ req[r].kind = "submit"
    /\ req[r].pc = "insert_client"
    /\ LET name == req[r].submission.company_name
           id == Uuid(r, req[r].nuuid)
       IN  /\ ClientNameUnique => ClientsNamed(name) = {}
           /\ Become(r, [req[r] EXCEPT !.client_id = id,
                             !.nuuid = @ + 1,
                             !.created = TRUE,
                             !.pending.clients = @ \cup {ClientRow(id, name)},
                             !.pc = "insert_submission"])
    /\ UNCHANGED <<tables, workload>>

\* INSERT INTO client_onboarding_submissions ...; segments = submission.segments or []
SubmissionInsert(r) ==
    /\ req[r].kind = "submit"
    /\ req[r].pc = "insert_submission"
    /\ Become(r, RunToStatement([req[r] EXCEPT
                    !.pending.submissions =
                        @ \cup {SubmissionRow(req[r].submission_id, req[r].client_id,
                                              req[r].submission)},
                    !.idx = 0,
                    !.pc = "segments"]))
    /\ UNCHANGED <<tables, workload>>

\* INSERT INTO client_segments ..., for the entry at idx
SegmentInsert(r) ==
    /\ req[r].kind = "submit"
    /\ req[r].pc = "segments"
    /\ LET idx == req[r].idx
           seg == req[r].submission.segments[idx + 1]
       IN  Become(r, RunToStatement([req[r] EXCEPT
                    !.pending.segments =
                        @ \cup {SegmentRow(Uuid(r, req[r].nuuid),
                                           req[r].submission_id, idx, seg)},
                    !.nuuid = @ + 1,
                    !.idx = idx + 1]))
    /\ UNCHANGED <<tables, workload>>

\* INSERT INTO client_personas ..., for the entry at idx
PersonaInsert(r) ==
    /\ req[r].kind = "submit"
    /\ req[r].pc = "personas"
    /\ LET idx == req[r].idx
           persona == req[r].submission.personas[idx + 1]
       IN  Become(r, RunToStatement([req[r] EXCEPT
                    !.pending.personas =
                        @ \cup {PersonaRow(Uuid(r, req[r].nuuid),
                                           req[r].submission_id, idx, persona)},
                    !.nuuid = @ + 1,
                    !.idx = idx + 1]))
    /\ UNCHANGED <<tables, workload>>

\* faulty variant: the commit drops a new client row whose name is already committed
\* (INSERT ... ON CONFLICT DO NOTHING)
CommitSkipsKnownClients(r) ==
    /\ req[r].kind = "submit"
    /\ req[r].pc = "commit"
    /\ clients' = clients \cup {c \in req[r].pending.clients : ClientsNamed(c.name) = {}}
    /\ submissions' = submissions \cup req[r].pending.submissions
    /\ segments' = segments \cup req[r].pending.segments
    /\ personas' = personas \cup req[r].pending.personas
    /\ Become(r, [req[r] EXCEPT !.pending = NoPending, !.status = 200,
                                !.pc = "finally"])
    /\ UNCHANGED workload

\* session.commit(); return SubmissionResponse(success=True, ...)
Commit(r) ==
    /\ req[r].kind = "submit"
    /\ req[r].pc = "commit"
    /\ ClientNameUnique =>
           \A c \in req[r].pending.clients : ClientsNamed(c.name) = {}
    /\ clients' = clients \cup req[r].pending.clients
    /\ submissions' = submissions \cup req[r].pending.submissions
    /\ segments' = segments \cup req[r].pending.segments
    /\ personas' = personas \cup req[r].pending.personas
    /\ Become(r, [req[r] EXCEPT !.pending = NoPending, !.status = 200,
                                !.pc = "finally"])
    /\ UNCHANGED workload

\* whether the handler is about to send a statement (or the commit) to the store
SubmitAtStatement(r) ==
    req[r].pc \in {"lookup", "insert_client", "insert_submission", "segments",
                   "personas", "commit"}

\* session.execute / session.commit raises: constraint violation, lost connection
SubmitStorageFailure(r) ==
    /\ req[r].kind = "submit"
    /\ SubmitAtStatement(r)
    /\ Become(r, [req[r] EXCEPT !.pc = "except"])
    /\ UNCHANGED <<tables, workload>>

\* except Exception: session.rollback(); raise HTTPException(status_code=500, ...)
SubmitExcept(r) ==
    /\ req[r].kind = "submit"
    /\ req[r].pc = "except"
    /\ Become(r, [req[r] EXCEPT !.pending = NoPending, !.rolled_back = TRUE,
                                !.status = 500, !.pc = "finally"])
    /\ UNCHANGED <<tables, workload>>

\* faulty variant: session.close() sits after the commit, not in a finally block
SubmitFinallyLeak(r) ==
    /\ req[r].kind = "submit"
    /\ req[r].pc = "finally"
    /\ Become(r, [req[r] EXCEPT
                    !.session = IF req[r].status = 200 THEN "closed" ELSE @,
                    !.idx = 0, !.pc = "done"])
    /\ UNCHANGED <<tables, workload>>

\* finally: session.close(); then the response or the error reaches the caller.
\* Closing a session discards what it has not committed.
SubmitFinally(r) ==
    /\ req[r].kind = "submit"
    /\ req[r].pc = "finally"
    /\ Become(r, [req[r] EXCEPT !.session = "closed", !.pending = NoPending,
                                !.idx = 0, !.pc = "done"])
    /\ UNCHANGED <<tables, workload>>

(***************************************************************************)
(* GET /onboarding/{submission_id}                                         *)
(***************************************************************************)
\* SELECT * FROM client_onboarding_submissions WHERE id = :id
SubmissionsWithId(id) == {s \in submissions : s.id = id}

\* SELECT * FROM client_segments WHERE submission_id = :id
SegmentsOf(id) == {g \in segments : g.submission_id = id}

\* SELECT * FROM client_personas WHERE submission_id = :id
PersonasOf(id) == {p \in personas : p.submission_id = id}

\* faulty variant: the query has no ORDER BY
SegmentsUnordered(s) == TRUE

\* ORDER BY segment_order
SegmentsOrdered(s) == \A i, j \in 1..Len(s) : i < j => s[i].segment_order <= s[j].segment_order

\* ORDER BY persona_order
PersonasOrdered(s) == \A i, j \in 1..Len(s) : i < j => s[i].persona_order <= s[j].persona_order

\* fetchall(): the sequences that list every row of the set once
Listings(rows) ==
    {s \in [1..Cardinality(rows) -> rows] : \A x \in rows : \E i \in DOMAIN s : s[i] = x}

\* the identifiers a caller may ask for: one that a submission carries, or an
\* unused one
GetInputs == {s.id : s \in submissions} \cup {PyStr("unused")}

\* session = get_db_session()
GetBegin(r) ==
    /\ MayStart(r)
    /\ MayGet(r)
    /\ \E id \in GetInputs :
         Become(r, [req[r] EXCEPT !.kind = "get", !.arg = id, !.session = "open",
                                  !.pc = "select_submission"])
    /\ UNCHANGED <<tables, workload>>

\* row = result.fetchone(); if not row: raise HTTPException(status_code=404, ...)
GetSubmissionRow(r) ==
    /\ req[r].kind = "get"
    /\ req[r].pc = "select_submission"
    /\ LET rows == SubmissionsWithId(req[r].arg)
       IN  IF rows = {}
             THEN Become(r, [req[r] EXCEPT !.status = 404, !.pc = "finally"])
             ELSE \E row \in rows :
                    Become(r, [req[r] EXCEPT !.result.submission = {row},
                                             !.pc = "select_segments"])
    /\ UNCHANGED <<tables, workload>>

\* submission['segments'] = [dict(zip(seg_columns, r)) for r in seg_result.fetchall()]
GetSegments(r) ==
    /\ req[r].kind = "get"
    /\ req[r].pc = "select_segments"
    /\ \E s \in Listings(SegmentsOf(req[r].arg)) :
          /\ SegmentsOrdered(s)
          /\ Become(r, [req[r] EXCEPT !.result.segments = s,
                                      !.pc = "select_personas"])
    /\ UNCHANGED <<tables, workload>>

\* submission['personas'] = [...]; return submission
GetPersonas(r) ==
    /\ req[r].kind = "get"
    /\ req[r].pc = "select_personas"
    /\ \E s \in Listings(PersonasOf(req[r].arg)) :
          /\ PersonasOrdered(s)
          /\ Become(r, [req[r] EXCEPT !.result.personas = s, !.status = 200,
                                      !.pc = "finally"])
    /\ UNCHANGED <<tables, workload>>

\* session.execute raises
GetStorageFailure(r) ==
    /\ req[r].kind = "get"
    /\ req[r].pc \in {"select_submission", "select_segments", "select_personas"}
    /\ Become(r, [req[r] EXCEPT !.pc = "except"])
    /\ UNCHANGED <<tables, workload>>

\* except Exception: raise HTTPException(status_code=500, ...)
GetExcept(r) ==
    /\ req[r].kind = "get"
    /\ req[r].pc = "except"
    /\ Become(r, [req[r] EXCEPT !.result = NoResult, !.status = 500,
                                !.pc = "finally"])
    /\ UNCHANGED <<tables, workload>>

\* finally: session.close()
GetFinally(r) ==
    /\ req[r].kind = "get"
    /\ req[r].pc = "finally"
    /\ Become(r, [req[r] EXCEPT !.session = "closed", !.pc = "done"])
    /\ UNCHANGED <<tables, workload>>

(***************************************************************************)
(* Specifications: Spec serves the concurrent workload, SpecForm the form  *)
(* workload.                                                               *)
(***************************************************************************)
Next ==
    \E r \in Requests :
        \/ SubmitBegin(r)
        \/ ClientLookup(r)
        \/ ClientInsert(r)
        \/ SubmissionInsert(r)
        \/ SegmentInsert(r)
        \/ PersonaInsert(r)
        \/ Commit(r)
        \/ SubmitStorageFailure(r)
        \/ SubmitExcept(r)
        \/ SubmitFinally(r)
        \/ GetBegin(r)
        \/ GetSubmissionRow(r)
        \/ GetSegments(r)
        \/ GetPersonas(r)
        \/ GetStorageFailure(r)
        \/ GetExcept(r)
        \/ GetFinally(r)

Spec == Init /\ [][Next]_vars
SpecForm == InitForm /\ [][Next]_vars

(***************************************************************************)
(* Properties.                                                             *)
(***************************************************************************)
\* a field that carries a string of at least one character
NonEmpty(x) == x.t = "str" /\ x.v # ""

Submits == {r \in Requests : req[r].kind = "submit"}
Gets == {r \in Requests : req[r].kind = "get"}

\* the positions of the entries a submission persists, as order indices
NamedSegmentOrders(sub) ==
    {i - 1 : i \in {j \in 1..Len(sub.segments) :
                      NonEmpty(sub.segments[j].name) \/ NonEmpty(sub.segments[j].segment_name)}}
TitledPersonaOrders(sub) ==
    {i - 1 : i \in {j \in 1..Len(sub.personas) : NonEmpty(sub.personas[j].job_title)}}

\* the committed rows that belong to request r
CommittedSubmission(r) == {s \in submissions : s.id = req[r].submission_id}
CommittedSegments(r) == {g \in segments : g.submission_id = req[r].submission_id}
CommittedPersonas(r) == {p \in personas : p.submission_id = req[r].submission_id}
CommittedNewClient(r) == {c \in clients : req[r].created /\ c.id = req[r].client_id}

NoRowOf(r) ==
    /\ CommittedSubmission(r) = {}
    /\ CommittedSegments(r) = {}
    /\ CommittedPersonas(r) = {}
    /\ CommittedNewClient(r) = {}

EveryRowOf(r) ==
    /\ Cardinality(CommittedSubmission(r)) = 1
    /\ {g.segment_order : g \in CommittedSegments(r)} = NamedSegmentOrders(req[r].submission)
    /\ Cardinality(CommittedSegments(r)) = Cardinality(NamedSegmentOrders(req[r].submission))
    /\ {p.persona_order : p \in CommittedPersonas(r)} = TitledPersonaOrders(req[r].submission)
    /\ Cardinality(CommittedPersonas(r)) = Cardinality(TitledPersonaOrders(req[r].submission))
    /\ req[r].created => Cardinality(CommittedNewClient(r)) = 1

MissingBoth(sub) == ~NonEmpty(sub.client_id) /\ ~NonEmpty(sub.company_name)

\* C1: the write path is all-or-nothing.  At every moment the committed store
\* holds every row a submit request writes or none of them; a request that
\* answered 200 has all its rows committed; a request whose storage step failed
\* has none, was rolled back and answers 500.
C1_AllOrNothing ==
    \A r \in Submits :
        /\ NoRowOf(r) \/ EveryRowOf(r)
        /\ req[r].status = 200 => EveryRowOf(r)
        /\ req[r].status # 200 => NoRowOf(r)
        /\ (req[r].pc = "done" /\ req[r].status # 200 /\ ~MissingBoth(req[r].submission))
              => (req[r].status = 500 /\ req[r].rolled_back)

\* a request failed after it had inserted its client row, beside a committed one
C1_Witness ==
    \E r, q \in Submits :
        /\ req[r].pc = "done" /\ req[r].status = 500 /\ req[r].created
        /\ req[q].pc = "done" /\ req[q].status = 200

\* C2: a submission with neither client_id nor company name (absent or empty)
\* answers 400, and no step of its request changes any of the four tables.
C2_MissingIdentifier ==
    /\ [](\A r \in Submits :
            MissingBoth(req[r].submission) =>
                /\ req[r].pending = NoPending
                /\ req[r].pc = "done" => req[r].status = 400)
    /\ [][\A r \in Requests :
            (req'[r] # req[r] /\ req'[r].kind = "submit" /\ MissingBoth(req'[r].submission))
                => tables' = tables]_vars

\* a 400 answered while the store holds another request's rows
C2_Witness ==
    \E r, q \in Submits :
        /\ req[r].pc = "done" /\ req[r].status = 400
        /\ MissingBoth(req[r].submission) /\ req[r].submission.segments # <<>>
        /\ req[q].status = 200 /\ r > q

\* the committed clients that carried the company name of r when r looked it up
SeenMatches(r) == {c \in req[r].seen : c.name = req[r].submission.company_name}

ByName(r) ==
    /\ r \in Submits
    /\ ~NonEmpty(req[r].submission.client_id)
    /\ NonEmpty(req[r].submission.company_name)

\* C3: a submission identified by company name alone looks the name up by exact
\* equality.  If a committed client carried the name, the submission row
\* references one of those clients and the request adds no client row; if none
\* did, the request adds exactly one client row with that name and the
\* submission row references it.  The clients table holds exactly the rows so
\* created.
C3_ClientResolver ==
    /\ \A r \in Requests :
          (ByName(r) /\ req[r].status = 200) =>
              /\ req[r].looked_up
              /\ \A s \in CommittedSubmission(r) : s.client_id = req[r].client_id
              /\ IF SeenMatches(r) # {}
                   THEN /\ req[r].client_id \in {c.id : c \in SeenMatches(r)}
                        /\ ~req[r].created
                   ELSE /\ req[r].created
                        /\ {c \in clients : c.id = req[r].client_id}
                             = {[id |-> req[r].client_id,
                                 name |-> req[r].submission.company_name]}
    /\ clients = {[id |-> req[r].client_id, name |-> req[r].submission.company_name] :
                    r \in {q \in Requests : ByName(q) /\ req[q].status = 200
                                              /\ SeenMatches(q) = {}}}

\* one request reused the client another had created, while a client of another
\* spelling was committed
C3_Witness ==
    \E r, q \in Requests :
        /\ ByName(r) /\ req[r].status = 200 /\ req[r].pc = "done"
        /\ SeenMatches(r) # {} /\ req[r].seen # SeenMatches(r)
        /\ ByName(q) /\ req[q].status = 200 /\ req[q].created

\* C4: a successful submission that supplies a non-empty client_id stores that
\* value in its submission row, performs no client lookup and creates no
\* client row.
C4_ExplicitClientId ==
    \A r \in Submits :
        NonEmpty(req[r].submission.client_id) =>
            /\ ~req[r].looked_up
            /\ ~req[r].created
            /\ req[r].pending.clients = {}
            /\ req[r].status = 200 =>
                  /\ CommittedSubmission(r) # {}
                  /\ \A s \in CommittedSubmission(r) :
                        s.client_id = req[r].submission.client_id

\* a client_id that names an existing client, sent with the company name of a
\* client, was stored
C4_Witness ==
    \E r \in Submits :
        /\ req[r].pc = "done" /\ req[r].status = 200
        /\ NonEmpty(req[r].submission.client_id)
        /\ NonEmpty(req[r].submission.company_name)
        /\ \E c \in clients : c.id = req[r].submission.client_id
        /\ \E c \in clients : c.name = req[r].submission.company_name

\* C5: the segment entry at position i of a successful submission is persisted
\* if and only if 'name' or 'segment_name' is non-empty, as one row whose
\* segment_order is i.
C5_SegmentsPersisted ==
    \A r \in Submits :
        req[r].status = 200 =>
            /\ \A i \in 0..(Len(req[r].submission.segments) - 1) :
                  LET seg == req[r].submission.segments[i + 1]
                      rows == {g \in CommittedSegments(r) : g.segment_order = i}
                  IN  IF NonEmpty(seg.name) \/ NonEmpty(seg.segment_name)
                        THEN Cardinality(rows) = 1
                        ELSE rows = {}
            /\ \A g \in CommittedSegments(r) :
                  g.segment_order \in 0..(Len(req[r].submission.segments) - 1)

\* an entry after a skipped one was persisted under its own position
C5_Witness ==
    \E r \in Submits :
        /\ req[r].pc = "done" /\ req[r].status = 200
        /\ Len(req[r].submission.segments) = 2
        /\ ~NonEmpty(req[r].submission.segments[1].name)
        /\ ~NonEmpty(req[r].submission.segments[1].segment_name)
        /\ req[r].submission.segments[1].name # Absent
        /\ NonEmpty(req[r].submission.segments[2].segment_name)
        /\ {g.segment_order : g \in CommittedSegments(r)} = {1}

\* C6: the persona entry at position i of a successful submission is persisted
\* if and only if its job_title is non-empty, as one row whose persona_order
\* is i.
C6_PersonasPersisted ==
    \A r \in Submits :
        req[r].status = 200 =>
            /\ \A i \in 0..(Len(req[r].submission.personas) - 1) :
                  LET rows == {p \in CommittedPersonas(r) : p.persona_order = i}
                  IN  IF NonEmpty(req[r].submission.personas[i + 1].job_title)
                        THEN Cardinality(rows) = 1
                        ELSE rows = {}
            /\ \A p \in CommittedPersonas(r) :
                  p.persona_order \in 0..(Len(req[r].submission.personas) - 1)

\* a persona after a skipped one was persisted under its own position
C6_Witness ==
    \E r \in Submits :
        /\ req[r].pc = "done" /\ req[r].status = 200
        /\ Len(req[r].submission.personas) = 2
        /\ req[r].submission.personas[1].job_title = PyStr("")
        /\ NonEmpty(req[r].submission.personas[2].job_title)
        /\ {p.persona_order : p \in CommittedPersonas(r)} = {1}

\* the order indices of a listing
SegmentOrdersOf(s) == [i \in 1..Len(s) |-> s[i].segment_order]
PersonaOrdersOf(s) == [i \in 1..Len(s) |-> s[i].persona_order]
StrictlyAscending(s) == \A i, j \in 1..Len(s) : i < j => s[i] < s[j]
Range(s) == {s[i] : i \in 1..Len(s)}

\* C7: a read that answers 200 for the identifier a submission returned holds
\* that submission's parent row, and exactly the segment rows and persona rows
\* persisted for it, each list in ascending order index, whatever other
\* submissions were written.
C7_RoundTrip ==
    \A g \in Gets :
        req[g].status = 200 =>
            \E w \in Submits :
                /\ req[w].submission_id = req[g].arg
                /\ req[w].status = 200
                /\ req[g].result.submission = CommittedSubmission(w)
                /\ Range(req[g].result.segments) = CommittedSegments(w)
                /\ Range(SegmentOrdersOf(req[g].result.segments))
                      = NamedSegmentOrders(req[w].submission)
                /\ StrictlyAscending(SegmentOrdersOf(req[g].result.segments))
                /\ Range(req[g].result.personas) = CommittedPersonas(w)
                /\ Range(PersonaOrdersOf(req[g].result.personas))
                      = TitledPersonaOrders(req[w].submission)
                /\ StrictlyAscending(PersonaOrdersOf(req[g].result.personas))

\* a submission read back after another submission was written
C7_Witness ==
    \E g \in Gets :
        /\ req[g].pc = "done" /\ req[g].status = 200
        /\ Len(req[g].result.segments) >= 2
        /\ Len(req[g].result.personas) >= 1
        /\ \E w, o \in Submits :
              /\ w < o /\ o < g
              /\ req[w].submission_id = req[g].arg
              /\ req[o].status = 200
              /\ CommittedSegments(o) # {}

\* two requests that both looked the same name up and found no client
Raced(r, q) ==
    /\ r # q
    /\ ByName(r) /\ ByName(q)
    /\ req[r].submission.company_name = req[q].submission.company_name
    /\ req[r].status = 200 /\ req[q].status = 200
    /\ SeenMatches(r) = {} /\ SeenMatches(q) = {}

\* C8: when two submissions that name the same unseen company both find no
\* client, both client rows are committed under that name, and each submission
\* commits its own submission row referencing the client row it created.
C8_ClientRace ==
    \A r, q \in Requests :
        Raced(r, q) =>
            /\ req[r].client_id # req[q].client_id
            /\ {ClientRow(req[r].client_id, req[r].submission.company_name),
                ClientRow(req[q].client_id, req[q].submission.company_name)}
                  \subseteq clients
            /\ req[r].submission_id # req[q].submission_id
            /\ \E s \in submissions :
                  s.id = req[r].submission_id /\ s.client_id = req[r].client_id
            /\ \E s \in submissions :
                  s.id = req[q].submission_id /\ s.client_id = req[q].client_id

\* two committed client rows carry the same name
C8_Witness ==
    /\ \E r, q \in Requests : Raced(r, q) /\ req[r].pc = "done" /\ req[q].pc = "done"
    /\ \E c, d \in clients : c # d /\ c.name = d.name

\* C9: every session a handler opens is closed when its request ends, on every
\* exit path; a write that failed is rolled back while its session is still
\* open, before the 500 is surfaced.
C9_SessionReleased ==
    \A r \in Requests :
        /\ req[r].kind # "none" => req[r].session # "none"
        /\ req[r].pc = "done" => req[r].session = "closed"
        /\ req[r].pc # "done" => req[r].session # "closed"
        /\ (req[r].kind = "submit" /\ req[r].status = 500) => req[r].rolled_back
        /\ (req[r].kind = "submit" /\ req[r].pc = "finally" /\ req[r].rolled_back)
              => req[r].session = "open"
        /\ (req[r].kind = "submit" /\ req[r].pc = "done" /\ req[r].status \notin {200, 400})
              => (req[r].status = 500 /\ req[r].rolled_back)

\* a 400, a failed write and a 404 have all ended
C9_Witness ==
    \E r, q, g \in Requests :
        /\ req[r].kind = "submit" /\ req[r].pc = "done" /\ req[r].status = 400
        /\ req[q].kind = "submit" /\ req[q].pc = "done" /\ req[q].status = 500
        /\ req[g].kind = "get" /\ req[g].pc = "done" /\ req[g].status = 404

\* C10: a persisted segment's name and revenue percentage come from the
\* primary field ('name', 'revenue_pct') whenever the entry holds it, and from
\* the fallback field ('segment_name', 'revenue_percentage') only when it does
\* not.
C10_PrimaryFieldWins ==
    \A r \in Submits :
        req[r].status = 200 =>
            \A g \in CommittedSegments(r) :
                LET seg == req[r].submission.segments[g.segment_order + 1]
                IN  /\ g.segment_name =
                          (IF seg.name # Absent THEN seg.name ELSE Get(seg.segment_name))
                    /\ g.revenue_percentage =
                          (IF seg.revenue_pct # Absent THEN seg.revenue_pct
                                                      ELSE Get(seg.revenue_percentage))

====
